---- MODULE Spec2Model ----
(***************************************************************************)
(* Model of the PA1010D GPS driver (library/pa1010d/__init__.py):          *)
(* the byte-at-a-time framed reader read_sentence, and the sentence        *)
(* dispatcher update that folds parsed NMEA sentences into the fix fields  *)
(* of the driver object; and the command encoder send_command with its     *)
(* caller set_pps, which frame a command and write it byte by byte.        *)
(*                                                                         *)
(* The bus (smbus) and the sentence parser (pynmea2) are the environment:  *)
(* every bus read delivers a byte chosen from Bytes and lets the wall      *)
(* clock advance by 1..MaxStep ticks; every parse yields ParseError or one *)
(* of ParseResults.  Text is modelled as the sequence of its code points.  *)
(***************************************************************************)
EXTENDS Integers, Sequences, FiniteSets

\* ------------------------------------------------------------------ bounds
\* Largest timeout argument a caller passes (ticks of the wall clock).
MaxTimeout == 4
\* Largest advance of the wall clock during one bus read.
MaxStep == 2
\* Largest timeout argument of a direct read_sentence call.
MaxReadTimeout == 5
\* Longest command argument a caller passes to send_command.
MaxCmdLen == 3

\* --------------------------------------------------------------- constants
\* Default timeout of read_sentence, the one update always uses.
ReadTimeoutDefault == 5
\* ord("$"), ord("\r"), ord("\n")
Dollar == 36
CR == 13
LF == 10
\* PA1010D_ADDR = 0x10, the default i2c_addr; ord("*")
PA1010D_ADDR == 16
Star == 42
\* Python's None, for a field that holds no value.
None == -1

\* Bytes the device puts on the bus: "$", "A", CR, LF and a non-ASCII byte.
Bytes == {36, 65, 13, 10, 200}
\* Characters str.strip() removes: \t \n \v \f \r FS GS RS US and space.
Whitespace == {9, 10, 11, 12, 13, 28, 29, 30, 31, 32}

\* Characters of a command argument: "$", "*", "A" and the non-ASCII "\u00c8".
CmdChars == {36, 42, 65, 200}
\* Pulse widths a caller passes to set_pps; the last is outside 1..999.
PulseWidths == {1, 100, 999, 1000}
\* Mode arguments of set_pps: the five members of the PPS enumeration, and
\* plain integers, which are not members even when a member has that value.
PPSArgs == [is_pps : {TRUE}, value : 0..4] \cup [is_pps : {FALSE}, value : {4, 7}]
\* set_pps's default mode, PPS.ALWAYS.
PPSAlways == [is_pps |-> TRUE, value |-> 4]

WaitKinds == {"GGA", "GLL", "GSA", "RMC", "VTG", "GSV"}

\* ------------------------------------------------------- parser results
GGAFix ==
    [type |-> "GGA", gps_qual |-> 1, timestamp |-> 123519, latitude |-> 48,
     longitude |-> 11, altitude |-> 545, num_sats |-> 8]
GGAZero ==
    [type |-> "GGA", gps_qual |-> 0, timestamp |-> 123520, latitude |-> 0,
     longitude |-> 0, altitude |-> None, num_sats |-> 0]
GGAAbsent ==
    [type |-> "GGA", gps_qual |-> None, timestamp |-> 123521, latitude |-> 0,
     longitude |-> 0, altitude |-> None, num_sats |-> None]
GSASentence ==
    [type |-> "GSA", mode_fix_type |-> 3, pdop |-> 25, hdop |-> 13, vdop |-> 21]
RMCSentence ==
    [type |-> "RMC", spd_over_grnd |-> 22]
\* Sentence types the dispatcher names, and one it does not ("ZDA").
PlainTypes == {"GLL", "VTG", "GSV", "ProprietarySentence", "MTK011", "MTK010", "ZDA"}
ParseResults ==
    {GGAFix, GGAZero, GGAAbsent, GSASentence, RMCSentence}
        \cup {[type |-> t] : t \in PlainTypes}
NoResult == [type |-> "none"]
\* No send_command call has been made.
NoCommand == [text |-> <<>>, is_str |-> FALSE]
ParseError == [type |-> "ParseError"]

\* ---------------------------------------------------------------- state
VARIABLES
    pc,         \* "idle", "u_loop", "r_loop", "u_parse", "w_loop", "done"
    api,        \* the public method running: "none", "read_sentence", "update",
                \* "send_command", "set_pps"
    now,        \* time.time()
    r_timeout,  \* read_sentence's deadline (its local timeout)
    u_timeout,  \* update's deadline (its local timeout)
    u_arg,      \* update's timeout argument
    wait_for,   \* update's wait_for argument
    buf,        \* read_sentence's local buf
    rx,         \* every byte the current read_sentence call has read
    sentence,   \* the line read_sentence returned
    result,     \* what pynmea2.parse returned for the last line
    fix,        \* the driver's fix fields
    outcome,    \* "none", "returned", "True", "None", or the exception raised
    err,        \* what the exception message names
    parsed,     \* what pynmea2.parse gave for each line of the current update call
    calls,      \* driver calls made so far
    abandoned,  \* length of the partial frame the timed-out call before this one left
    command,    \* send_command's command argument: [text, is_str]
    add_checksum, \* send_command's add_checksum argument
    frame,      \* send_command's local buf, the bytes handed to _write_sentence
    bus,        \* the write_byte calls of the current call: <<address, value>> each
    sent,       \* the send_command calls ended so far:
                \* [command, add_checksum, wire, outcome]
    mode,       \* set_pps's mode argument: [is_pps, value]
    pulse_width, \* set_pps's pulse_width argument
    fault       \* errno of the bus failure met in the current call, or "none"

\* The state of the command encoder and of the bus.
iovars == <<command, add_checksum, frame, bus, sent, mode, pulse_width, fault>>

vars == <<pc, api, now, r_timeout, u_timeout, u_arg, wait_for, buf, rx,
          sentence, result, fix, outcome, err, parsed, calls, abandoned, iovars>>

FixFields == {"timestamp", "latitude", "longitude", "altitude", "num_sats",
              "gps_qual", "speed_over_ground", "mode_fix_type", "pdop", "hdop",
              "vdop"}

\* __init__: every fix field is None.
FixInit == [f \in FixFields |-> None]

\* ------------------------------------------------------------- read_sentence
Min(S) == CHOOSE x \in S : \A y \in S : x <= y
Max(S) == CHOOSE x \in S : \A y \in S : x >= y

\* Variant of NewBuf: the list outlives the call (a shared default list).
NewBufKeepsLeftover(leftover) == leftover

\* buf = []: read_sentence starts with an empty list, whatever an earlier call left.
NewBuf(leftover) == <<>>

\* Variant of EndOfLine: a line feed alone ends the line.
EndOfLineBareLF(b) ==
    Len(b) >= 1 /\ b[Len(b)] = LF

\* buf[-2:] == [ord("\r"), ord("\n")]
EndOfLine(b) ==
    Len(b) >= 2 /\ b[Len(b) - 1] = CR /\ b[Len(b)] = LF

\* Variant of Discards: no byte is dropped, the reader does not wait for "$".
DiscardsNothing(b, char) ==
    FALSE

\* The test that drops a byte: len(buf) == 0 and char != ord("$")
Discards(b, char) ==
    Len(b) = 0 /\ char # Dollar

\* Variant of ReadDeadline: the deadline is the time of the call, "=" for "+=".
ReadDeadlineNow(t, timeout) == t

\* read_sentence's deadline: timeout += time.time()
ReadDeadline(t, timeout) == t + timeout

\* bytearray(buf).decode("ascii") succeeds
Decodable(b) == \A i \in 1..Len(b) : b[i] < 128

\* str.strip()
Strip(s) ==
    LET keep == {i \in 1..Len(s) : s[i] \notin Whitespace}
    IN  IF keep = {} THEN <<>> ELSE SubSeq(s, Min(keep), Max(keep))

\* str.replace("\n", "")
RemoveNewlines(s) == SelectSeq(s, LAMBDA c : c # LF)

\* bytearray(buf).decode("ascii").strip().replace("\n", "")
Line(b) == RemoveNewlines(Strip(b))

\* ------------------------------------------------------------------- update
\* Variant of Fold: the RMC branch also clears the timestamp.
FoldRMCClearsTimestamp(f, r) ==
    IF r.type = "GGA" THEN
        IF r.gps_qual = None
        THEN [f EXCEPT !.num_sats = 0, !.gps_qual = 0]
        ELSE [f EXCEPT !.timestamp = r.timestamp, !.latitude = r.latitude,
                       !.longitude = r.longitude, !.altitude = r.altitude,
                       !.num_sats = r.num_sats, !.gps_qual = r.gps_qual]
    ELSE IF r.type = "GSA" THEN
        [f EXCEPT !.mode_fix_type = r.mode_fix_type, !.pdop = r.pdop,
                  !.hdop = r.hdop, !.vdop = r.vdop]
    ELSE IF r.type = "RMC" THEN
        [f EXCEPT !.speed_over_ground = r.spd_over_grnd, !.timestamp = None]
    ELSE f

\* Variant of Fold: a GGA without fix quality also clears the stored position.
FoldNoFixClearsPosition(f, r) ==
    IF r.type = "GGA" THEN
        IF r.gps_qual = None
        THEN [f EXCEPT !.num_sats = 0, !.gps_qual = 0, !.timestamp = None,
                       !.latitude = None, !.longitude = None, !.altitude = None]
        ELSE [f EXCEPT !.timestamp = r.timestamp, !.latitude = r.latitude,
                       !.longitude = r.longitude, !.altitude = r.altitude,
                       !.num_sats = r.num_sats, !.gps_qual = r.gps_qual]
    ELSE IF r.type = "GSA" THEN
        [f EXCEPT !.mode_fix_type = r.mode_fix_type, !.pdop = r.pdop,
                  !.hdop = r.hdop, !.vdop = r.vdop]
    ELSE IF r.type = "RMC" THEN
        [f EXCEPT !.speed_over_ground = r.spd_over_grnd]
    ELSE f

\* The assignments of update's branch for the type of r.
Fold(f, r) ==
    IF r.type = "GGA" THEN
        IF r.gps_qual = None
        THEN [f EXCEPT !.num_sats = 0, !.gps_qual = 0]
        ELSE [f EXCEPT !.timestamp = r.timestamp, !.latitude = r.latitude,
                       !.longitude = r.longitude, !.altitude = r.altitude,
                       !.num_sats = r.num_sats, !.gps_qual = r.gps_qual]
    ELSE IF r.type = "GSA" THEN
        [f EXCEPT !.mode_fix_type = r.mode_fix_type, !.pdop = r.pdop,
                  !.hdop = r.hdop, !.vdop = r.vdop]
    ELSE IF r.type = "RMC" THEN
        [f EXCEPT !.speed_over_ground = r.spd_over_grnd]
    ELSE f

\* Variant of Dispatch: the GSV branch lacks its return.
DispatchGSVFallsThrough(t, wf) ==
    IF t \in {"GGA", "GSA", "RMC", "VTG"}
    THEN (IF wf = t THEN "True" ELSE "continue")
    ELSE IF t \in {"GLL", "GSV"} THEN "continue"
    ELSE IF t = "ProprietarySentence" THEN "True"
    ELSE IF t \in {"MTK011", "MTK010"} THEN "True"
    ELSE "RuntimeError"

\* Variant of Dispatch: a proprietary sentence ends the call only when GGA is awaited.
DispatchNoticeNeedsGGA(t, wf) ==
    IF t \in {"GGA", "GSA", "RMC", "VTG", "GSV"}
    THEN (IF wf = t THEN "True" ELSE "continue")
    ELSE IF t = "GLL" THEN "continue"
    ELSE IF t = "ProprietarySentence" THEN (IF wf = "GGA" THEN "True" ELSE "continue")
    ELSE IF t \in {"MTK011", "MTK010"} THEN "True"
    ELSE "RuntimeError"

\* Variant of Dispatch: the final raise is missing, the loop goes on.
DispatchUnknownIgnored(t, wf) ==
    IF t \in {"GGA", "GSA", "RMC", "VTG", "GSV"}
    THEN (IF wf = t THEN "True" ELSE "continue")
    ELSE IF t = "GLL" THEN "continue"
    ELSE IF t = "ProprietarySentence" THEN "True"
    ELSE IF t \in {"MTK011", "MTK010"} THEN "True"
    ELSE "continue"

\* Variant of Dispatch: the GLL branch returns like the others when GLL is awaited.
DispatchGLLReturns(t, wf) ==
    IF t \in {"GGA", "GSA", "RMC", "VTG", "GSV", "GLL"}
    THEN (IF wf = t THEN "True" ELSE "continue")
    ELSE IF t = "ProprietarySentence" THEN "True"
    ELSE IF t \in {"MTK011", "MTK010"} THEN "True"
    ELSE "RuntimeError"

\* How update's branch for a sentence of type t ends: "True" (return True),
\* "RuntimeError" (raise), or "continue" (fall out of the if chain and loop).
Dispatch(t, wf) ==
    IF t \in {"GGA", "GSA", "RMC", "VTG", "GSV"}
    THEN (IF wf = t THEN "True" ELSE "continue")
    ELSE IF t = "GLL" THEN "continue"
    ELSE IF t = "ProprietarySentence" THEN "True"
    ELSE IF t \in {"MTK011", "MTK010"} THEN "True"
    ELSE "RuntimeError"

\* --------------------------------------------------------------- actions
Init ==
    /\ pc = "idle"
    /\ api = "none"
    /\ now = 0
    /\ r_timeout = 0
    /\ u_timeout = 0
    /\ u_arg = 0
    /\ wait_for = "GGA"
    /\ buf = <<>>
    /\ rx = <<>>
    /\ sentence = <<>>
    /\ result = NoResult
    /\ fix = FixInit
    /\ outcome = "none"
    /\ err = <<>>
    /\ parsed = <<>>
    /\ calls = 0
    /\ abandoned = 0
    /\ command = NoCommand
    /\ add_checksum = TRUE
    /\ frame = <<>>
    /\ bus = <<>>
    /\ sent = <<>>
    /\ mode = PPSAlways
    /\ pulse_width = 100
    /\ fault = "none"

\* A caller calls read_sentence(timeout): buf = [], timeout += time.time().
CallReadSentence ==
    /\ pc = "idle"
    /\ \E t \in 1..MaxReadTimeout :
          r_timeout' = ReadDeadline(now, t)
    /\ pc' = "r_loop"
    /\ api' = "read_sentence"
    /\ buf' = NewBuf(buf)
    /\ rx' = <<>>
    /\ sentence' = <<>>
    /\ result' = NoResult
    /\ outcome' = "none"
    /\ err' = <<>>
    /\ parsed' = <<>>
    /\ calls' = calls + 1
    /\ UNCHANGED <<now, u_timeout, u_arg, wait_for, fix, abandoned, iovars>>

\* A caller whose read_sentence call timed out calls read_sentence again.
RetryReadSentence ==
    /\ pc = "done"
    /\ api = "read_sentence"
    /\ outcome = "TimeoutError"
    /\ calls = 1
    /\ \E t \in 1..MaxReadTimeout :
          r_timeout' = ReadDeadline(now, t)
    /\ pc' = "r_loop"
    /\ buf' = NewBuf(buf)
    /\ abandoned' = Len(buf)
    /\ rx' = <<>>
    /\ sentence' = <<>>
    /\ outcome' = "none"
    /\ err' = <<>>
    /\ calls' = calls + 1
    /\ UNCHANGED <<api, now, u_timeout, u_arg, wait_for, result, fix, parsed,
                   iovars>>

\* A caller calls update(wait_for, timeout): timeout += time.time().
CallUpdate ==
    /\ pc = "idle"
    /\ \E wf \in WaitKinds, t \in 1..MaxTimeout :
          /\ wait_for' = wf
          /\ u_arg' = t
          /\ u_timeout' = now + t
    /\ pc' = "u_loop"
    /\ api' = "update"
    /\ buf' = <<>>
    /\ rx' = <<>>
    /\ sentence' = <<>>
    /\ result' = NoResult
    /\ outcome' = "none"
    /\ err' = <<>>
    /\ parsed' = <<>>
    /\ calls' = calls + 1
    /\ UNCHANGED <<now, r_timeout, fix, abandoned, iovars>>

\* update's loop test, and with it the call of read_sentence() or the final raise.
UpdateLoop ==
    /\ pc = "u_loop"
    /\ IF now < u_timeout
       THEN /\ pc' = "r_loop"
            /\ r_timeout' = ReadDeadline(now, ReadTimeoutDefault)
            /\ buf' = NewBuf(buf)
            /\ rx' = <<>>
            /\ UNCHANGED <<outcome, err>>
       ELSE /\ pc' = "done"
            /\ outcome' = "TimeoutError"
            /\ err' = <<wait_for>>
            /\ UNCHANGED <<r_timeout, buf, rx>>
    /\ UNCHANGED <<api, now, u_timeout, u_arg, wait_for, sentence, result, fix,
                   parsed, calls, abandoned, iovars>>

\* One iteration of read_sentence's loop: a bus read, and what follows it.
ReadByte ==
    /\ pc = "r_loop"
    /\ now < r_timeout
    /\ \E char \in Bytes, d \in 1..MaxStep :
          /\ now' = now + d
          /\ rx' = Append(rx, char)
          /\ IF Discards(buf, char)
             THEN UNCHANGED <<buf, pc, sentence, outcome, err>>
             ELSE LET nbuf == Append(buf, char) IN
                  /\ buf' = nbuf
                  /\ IF ~EndOfLine(nbuf)
                     THEN UNCHANGED <<pc, sentence, outcome, err>>
                     ELSE IF ~Decodable(nbuf)
                     THEN /\ pc' = "done"
                          /\ outcome' = "UnicodeDecodeError"
                          /\ err' = <<>>
                          /\ UNCHANGED sentence
                     ELSE /\ sentence' = Line(nbuf)
                          /\ err' = <<>>
                          /\ IF api = "update"
                             THEN pc' = "u_parse" /\ UNCHANGED outcome
                             ELSE pc' = "done" /\ outcome' = "returned"
    /\ UNCHANGED <<api, r_timeout, u_timeout, u_arg, wait_for, result, fix,
                   parsed, calls, abandoned, iovars>>

\* read_sentence's loop ends: raise TimeoutError, which update catches (continue).
\* The call's locals end with it; after a direct call the abandoned list stays
\* in view until the next call, as the record of what the call left unfinished.
ReadTimeout ==
    /\ pc = "r_loop"
    /\ now >= r_timeout
    /\ IF api = "update"
       THEN pc' = "u_loop" /\ UNCHANGED <<outcome, err>>
       ELSE pc' = "done" /\ outcome' = "TimeoutError" /\ err' = <<"readline">>
    /\ IF api = "update" THEN buf' = <<>> /\ rx' = <<>> ELSE UNCHANGED <<buf, rx>>
    /\ UNCHANGED <<api, now, r_timeout, u_timeout, u_arg, wait_for,
                   sentence, result, fix, parsed, calls, abandoned, iovars>>

\* pynmea2.parse(sentence) raises ParseError: continue.  read_sentence has
\* returned, so its locals (buf, and the record rx of its reads) are gone.
ParseFails ==
    /\ pc = "u_parse"
    /\ result' = ParseError
    /\ pc' = "u_loop"
    /\ buf' = <<>>
    /\ rx' = <<>>
    /\ parsed' = Append(parsed, ParseError)
    /\ UNCHANGED <<api, now, r_timeout, u_timeout, u_arg, wait_for,
                   sentence, fix, outcome, err, calls, abandoned, iovars>>

\* pynmea2.parse(sentence) returns r: the branch of update for r's type.
ParseAndFold ==
    /\ pc = "u_parse"
    /\ \E r \in ParseResults :
          /\ result' = r
          /\ parsed' = Append(parsed, r)
          /\ fix' = Fold(fix, r)
          /\ LET end == Dispatch(r.type, wait_for) IN
             IF end = "continue"
             THEN pc' = "u_loop" /\ UNCHANGED <<outcome, err>>
             ELSE /\ pc' = "done"
                  /\ outcome' = end
                  /\ err' = IF end = "RuntimeError" THEN <<r.type, sentence>> ELSE <<>>
    /\ buf' = <<>>
    /\ rx' = <<>>
    /\ UNCHANGED <<api, now, r_timeout, u_timeout, u_arg, wait_for, sentence,
                   calls, abandoned, iovars>>

Next ==
    \/ CallReadSentence
    \/ CallUpdate
    \/ UpdateLoop
    \/ ReadByte
    \/ ReadTimeout
    \/ ParseFails
    \/ ParseAndFold

Spec == Init /\ [][Next]_vars

\* read_sentence alone, called directly and called again after a timeout.
NextReader ==
    \/ CallReadSentence
    \/ RetryReadSentence
    \/ ReadByte
    \/ ReadTimeout

SpecReader == Init /\ [][NextReader]_vars

\* The driver is one sequential program whose bus reads return: a step that
\* can be taken is taken.
SpecLive == Init /\ [][Next]_vars /\ WF_vars(Next)

\* ------------------------------------------------------------- send_command
\* str.encode("ascii") succeeds: every character is below 128.
Encodable(text) == \A i \in 1..Len(text) : text[i] < 128

\* if command.startswith(b"$"): command = command[1:]
StripDollar(c) ==
    IF Len(c) >= 1 /\ c[1] = Dollar THEN SubSeq(c, 2, Len(c)) ELSE c

\* Variant of StripStar: a trailing "*" is kept.
KeepStar(c) == c

\* if command.endswith(b"*"): command = command[:-1]
StripStar(c) ==
    IF Len(c) >= 1 /\ c[Len(c)] = Star THEN SubSeq(c, 1, Len(c) - 1) ELSE c

\* The command after both tests, in the order the code makes them.
Normalize(c) == StripStar(StripDollar(c))

\* a ^ b on non-negative integers.
RECURSIVE Xor(_, _)
Xor(a, b) ==
    IF a = 0 /\ b = 0 THEN 0
    ELSE ((a + b) % 2) + 2 * Xor(a \div 2, b \div 2)

\* Variant of Checksum: the leading "$" is part of the sum.
RECURSIVE ChecksumWithDollar(_)
ChecksumWithDollar(c) ==
    IF Len(c) = 0 THEN Dollar
    ELSE Xor(ChecksumWithDollar(SubSeq(c, 1, Len(c) - 1)), c[Len(c)])

\* checksum = 0; for char in command: checksum ^= char
RECURSIVE Checksum(_)
Checksum(c) ==
    IF Len(c) = 0 THEN 0
    ELSE Xor(Checksum(SubSeq(c, 1, Len(c) - 1)), c[Len(c)])

\* One digit of the format type X: "0".."9", "A".."F".
HexDigit(d) == IF d < 10 THEN 48 + d ELSE 55 + d

\* "{checksum:02X}".format(checksum=n).encode("ascii"), for n below 256.
Hex02X(n) == <<HexDigit(n \div 16), HexDigit(n % 16)>>

\* Variant of Frame: without a checksum the terminator is left out as well.
FrameTerminatorWithChecksum(c, ck) ==
    <<Dollar>> \o Normalize(c)
        \o (IF ck THEN <<Star>> \o Hex02X(Checksum(Normalize(c))) \o <<CR, LF>>
                  ELSE <<>>)

\* send_command's buf for the encoded command c: "$", the normalized command,
\* "*" and the checksum digits if add_checksum, then "\r\n".
Frame(c, ck) ==
    <<Dollar>> \o Normalize(c)
        \o (IF ck THEN <<Star>> \o Hex02X(Checksum(Normalize(c))) ELSE <<>>)
        \o <<CR, LF>>

\* The values written by the write_byte calls w.
Wire(w) == [i \in 1..Len(w) |-> w[i][2]]

\* Every command argument of at most MaxCmdLen characters.
CmdTexts == UNION {[1..n -> CmdChars] : n \in 0..MaxCmdLen}

\* The other spellings of a command: with "$" in front, with "*" behind, with
\* both; and what an earlier call put on the wire for it, less the "\r\n".
Respellings(c, wire) ==
    {c, <<Dollar>> \o c, c \o <<Star>>, <<Dollar>> \o c \o <<Star>>}
        \cup (IF Len(wire) >= 2 THEN {SubSeq(wire, 1, Len(wire) - 2)} ELSE {})

\* ------------------------------------------------------------------ set_pps
\* Variant of IsMember: any argument whose value a member has is accepted.
IsMemberByValue(m) == m.value \in 0..4

\* isinstance(mode, PPS)
IsMember(m) == m.is_pps

\* str(n) for a non-negative integer n, as format() renders it.
RECURSIVE Decimal(_)
Decimal(n) ==
    IF n < 10 THEN <<48 + n>> ELSE Decimal(n \div 10) \o <<48 + (n % 10)>>

\* "PMTK285,{mode},{pulse_width}".format(mode=mode.value, pulse_width=pulse_width)
PpsSentence(m, pw) ==
    <<80, 77, 84, 75, 50, 56, 53, 44>> \o Decimal(m.value) \o <<44>> \o Decimal(pw)

\* ------------------------------------------------- actions of the encoder
\* The body of send_command(c, ck) up to the call of _write_sentence, for a
\* call made through the method named by a.
Encode(a, c, ck) ==
    /\ api' = a
    /\ command' = c
    /\ add_checksum' = ck
    /\ bus' = <<>>
    /\ fault' = "none"
    /\ calls' = calls + 1
    /\ IF c.is_str /\ ~Encodable(c.text)
       THEN /\ pc' = "done"
            /\ outcome' = "UnicodeEncodeError"
            /\ frame' = <<>>
            /\ sent' = Append(sent, [command |-> c, add_checksum |-> ck,
                                     wire |-> <<>>,
                                     outcome |-> "UnicodeEncodeError"])
       ELSE /\ pc' = "w_loop"
            /\ outcome' = "none"
            /\ frame' = Frame(c.text, ck)
            /\ UNCHANGED sent
    /\ UNCHANGED <<now, r_timeout, u_timeout, u_arg, wait_for, buf, rx, sentence,
                   result, fix, err, parsed, abandoned>>

\* A caller calls send_command(command, add_checksum).
CallSendCommand ==
    /\ pc = "idle"
    /\ \E text \in CmdTexts, s \in BOOLEAN, ck \in BOOLEAN :
          Encode("send_command", [text |-> text, is_str |-> s], ck)
    /\ UNCHANGED <<mode, pulse_width>>

\* A caller whose send_command call has ended, and not by a failure of the
\* bus, calls it again with another spelling of the same command.
ResendCommand ==
    /\ pc = "done"
    /\ api = "send_command"
    /\ Len(sent) = 1
    /\ outcome \in {"None", "UnicodeEncodeError"}
    /\ \E text \in Respellings(Normalize(command.text), sent[1].wire),
          s \in BOOLEAN, ck \in BOOLEAN :
          Encode("send_command", [text |-> text, is_str |-> s], ck)
    /\ UNCHANGED <<mode, pulse_width>>

\* A caller calls set_pps(mode, pulse_width).
CallSetPps ==
    /\ pc = "idle"
    /\ \E m \in PPSArgs, pw \in PulseWidths :
          /\ mode' = m
          /\ pulse_width' = pw
          /\ IF ~IsMember(m)
             THEN /\ pc' = "done"
                  /\ api' = "set_pps"
                  /\ outcome' = "ValueError"
                  /\ calls' = calls + 1
                  /\ UNCHANGED <<now, r_timeout, u_timeout, u_arg, wait_for, buf,
                                 rx, sentence, result, fix, err, parsed, abandoned,
                                 command, add_checksum, frame, bus, sent, fault>>
             ELSE Encode("set_pps", [text |-> PpsSentence(m, pw), is_str |-> TRUE],
                         TRUE)

\* One iteration of _write_sentence's loop: write_byte(self._i2c_addr, char_index);
\* after the last byte send_command returns.
WriteByte ==
    /\ pc = "w_loop"
    /\ LET nbus == Append(bus, <<PA1010D_ADDR, frame[Len(bus) + 1]>>) IN
          /\ bus' = nbus
          /\ IF Len(nbus) < Len(frame)
             THEN UNCHANGED <<pc, outcome, sent>>
             ELSE /\ pc' = "done"
                  /\ outcome' = "None"
                  /\ sent' = Append(sent, [command |-> command,
                                           add_checksum |-> add_checksum,
                                           wire |-> Wire(nbus),
                                           outcome |-> "None"])
    /\ UNCHANGED <<api, now, r_timeout, u_timeout, u_arg, wait_for, buf, rx,
                   sentence, result, fix, err, parsed, calls, abandoned, command,
                   add_checksum, frame, mode, pulse_width, fault>>

\* The exception class Python gives an OSError built from errno e.
ErrorClass(e) == IF e = "ETIMEDOUT" THEN "TimeoutError" ELSE "OSError"

\* write_byte raises: nothing catches it, the call ends with that exception.
BusWriteFails ==
    /\ pc = "w_loop"
    /\ \E e \in {"EIO", "ETIMEDOUT"} :
          /\ fault' = e
          /\ outcome' = ErrorClass(e)
          /\ sent' = Append(sent, [command |-> command,
                                   add_checksum |-> add_checksum,
                                   wire |-> Wire(bus),
                                   outcome |-> ErrorClass(e)])
    /\ pc' = "done"
    /\ UNCHANGED <<api, now, r_timeout, u_timeout, u_arg, wait_for, buf, rx,
                   sentence, result, fix, err, parsed, calls, abandoned, command,
                   add_checksum, frame, bus, mode, pulse_width>>

\* except TimeoutError around read_sentence() in update: the exception of
\* class cls, raised under the method a, is caught there.
Catches(a, cls) == a = "update" /\ cls = "TimeoutError"

\* read_byte_data raises inside read_sentence: read_sentence catches nothing;
\* update catches TimeoutError and goes round its loop (continue).
BusReadFails ==
    /\ pc = "r_loop"
    /\ now < r_timeout
    /\ \E e \in {"EIO", "ETIMEDOUT"}, d \in 1..MaxStep :
          /\ fault' = e
          /\ now' = now + d
          /\ IF Catches(api, ErrorClass(e))
             THEN /\ pc' = "u_loop"
                  /\ buf' = <<>>
                  /\ rx' = <<>>
                  /\ UNCHANGED <<outcome, err>>
             ELSE /\ pc' = "done"
                  /\ outcome' = ErrorClass(e)
                  /\ err' = <<e>>
                  /\ UNCHANGED <<buf, rx>>
    /\ UNCHANGED <<api, r_timeout, u_timeout, u_arg, wait_for, sentence, result,
                   fix, parsed, calls, abandoned, command, add_checksum, frame,
                   bus, sent, mode, pulse_width>>

\* The driver is idle; an earlier update call has stored a fix, or none has.
InitCmd ==
    /\ pc = "idle"
    /\ api = "none"
    /\ now = 0
    /\ r_timeout = 0
    /\ u_timeout = 0
    /\ u_arg = 0
    /\ wait_for = "GGA"
    /\ buf = <<>>
    /\ rx = <<>>
    /\ sentence = <<>>
    /\ result = NoResult
    /\ fix \in {FixInit, Fold(FixInit, GGAFix)}
    /\ outcome = "none"
    /\ err = <<>>
    /\ parsed = <<>>
    /\ calls = 0
    /\ abandoned = 0
    /\ command = NoCommand
    /\ add_checksum = TRUE
    /\ frame = <<>>
    /\ bus = <<>>
    /\ sent = <<>>
    /\ mode = PPSAlways
    /\ pulse_width = 100
    /\ fault = "none"

\* The command encoder: send_command, called again with another spelling, and
\* set_pps, over a bus whose writes can fail.
NextCmd ==
    \/ CallSendCommand
    \/ ResendCommand
    \/ CallSetPps
    \/ WriteByte
    \/ BusWriteFails

SpecCmd == InitCmd /\ [][NextCmd]_vars

\* Every public method, one call, over a bus whose reads and writes can fail.
NextIO ==
    \/ CallReadSentence
    \/ CallUpdate
    \/ UpdateLoop
    \/ ReadByte
    \/ ReadTimeout
    \/ ParseFails
    \/ ParseAndFold
    \/ BusReadFails
    \/ CallSendCommand
    \/ CallSetPps
    \/ WriteByte
    \/ BusWriteFails

SpecIO == Init /\ [][NextIO]_vars

\* ================================================================ claims
\* read_sentence has just returned a line (to its caller, or to update).
Returned ==
    \/ api = "read_sentence" /\ pc = "done" /\ outcome = "returned"
    \/ api = "update" /\ pc = "u_parse"

\* Index of the first "$" the call read.
FirstDollar(s) == Min({i \in 1..Len(s) : s[i] = Dollar})
\* The bytes read from the first "$" up to, not including, the closing CR LF.
Content(s) == SubSeq(s, FirstDollar(s), Len(s) - 2)
\* s without the whitespace bytes at its end.
DropTrailingWhitespace(s) ==
    SubSeq(s, 1, Max({0} \cup {i \in 1..Len(s) : s[i] \notin Whitespace}))
\* s without its LF bytes.
WithoutLF(s) == SelectSeq(s, LAMBDA c : c # LF)
\* Some adjacent CR LF pair ends at or before position n of s.
HasCRLF(s, n) == \E i \in 2..n : s[i - 1] = CR /\ s[i] = LF

\* C1 as stated: the returned line is exactly the bytes from the first "$"
\* through the content before the closing CR LF, nothing else removed.
C1_ExactContent ==
    Returned => sentence = Content(rx)

\* C1 amended: every byte read before the first "$" is discarded, and the
\* returned line is the bytes from that "$" through the content before the
\* closing CR LF, less the whitespace bytes at its end and less every LF byte.
C1_Resync ==
    Returned =>
        /\ \E i \in 1..Len(rx) : rx[i] = Dollar
        /\ sentence = WithoutLF(DropTrailingWhitespace(Content(rx)))

\* C1 case: junk bytes came before the "$", and the line holds content.
C1_Witness ==
    /\ Returned
    /\ rx[1] # Dollar
    /\ Len(sentence) >= 2

\* C2 as stated: the returned line is the frame with the closing CR LF removed
\* and every LF byte removed (and nothing else).
C2_OnlyCRLFAndLFRemoved ==
    Returned => sentence = WithoutLF(SubSeq(buf, 1, Len(buf) - 2))

\* C2 amended: a bare LF never ends the frame; the frame ends exactly when its
\* last two bytes are CR LF; the returned line is the frame with all whitespace
\* at its end (the closing CR LF included) removed and every LF byte removed.
C2_BareLFNeverEnds ==
    /\ (pc = "r_loop" => ~HasCRLF(buf, Len(buf)))
    /\ (Returned =>
           /\ Len(buf) >= 3
           /\ buf[Len(buf) - 1] = CR /\ buf[Len(buf)] = LF
           /\ ~HasCRLF(buf, Len(buf) - 1)
           /\ \A i \in 1..Len(sentence) : sentence[i] # LF
           /\ sentence = WithoutLF(DropTrailingWhitespace(buf)))

\* C2 case: a returned frame with a LF that no CR precedes, before more content.
C2_Witness ==
    /\ Returned
    /\ \E i \in 2..(Len(buf) - 3) :
          buf[i] = LF /\ buf[i - 1] # CR /\ buf[i + 1] = 65
    /\ Len(sentence) = 2

AwaitedKinds == {"GGA", "GSA", "RMC", "VTG", "GSV"}
NoticeKinds == {"ProprietarySentence", "MTK011", "MTK010"}
RecognizedKinds == AwaitedKinds \cup {"GLL"} \cup NoticeKinds

\* The fix fields hold what sentence r carries.
Folded(r) ==
    IF r.type = "GGA" THEN
        IF r.gps_qual = None
        THEN fix.num_sats = 0 /\ fix.gps_qual = 0
        ELSE /\ fix.timestamp = r.timestamp /\ fix.latitude = r.latitude
             /\ fix.longitude = r.longitude /\ fix.altitude = r.altitude
             /\ fix.num_sats = r.num_sats /\ fix.gps_qual = r.gps_qual
    ELSE IF r.type = "GSA" THEN
        /\ fix.mode_fix_type = r.mode_fix_type /\ fix.pdop = r.pdop
        /\ fix.hdop = r.hdop /\ fix.vdop = r.vdop
    ELSE IF r.type = "RMC" THEN fix.speed_over_ground = r.spd_over_grnd
    ELSE TRUE

\* C3: once update has parsed a sentence of the awaited kind (GGA, GSA, RMC,
\* VTG or GSV), the sentence is folded into the fix fields and the call has
\* returned True with no bus read after the parse, also for a no-fix GGA.
C3_AwaitedReturnsAtOnce ==
    (api = "update" /\ result.type \in AwaitedKinds /\ result.type = wait_for) =>
        /\ pc = "done"
        /\ outcome = "True"
        /\ Folded(result)
        /\ rx = <<>>

\* C3 case: update awaiting GGA returned True on a GGA without a fix quality.
C3_Witness ==
    /\ api = "update" /\ pc = "done" /\ outcome = "True"
    /\ wait_for = "GGA" /\ result = GGAAbsent
    /\ fix.gps_qual = 0

\* The fix fields a step changes.
Changed == {f \in FixFields : fix'[f] # fix[f]}

\* C4 as stated: folding a GGA sentence that reports no fix (quality zero or
\* absent) sets num_sats and gps_qual to 0 and keeps every other fix field.
C4_NoFixKeepsOtherFields ==
    [][(pc = "u_parse" /\ result'.type = "GGA" /\ result'.gps_qual \in {0, None}) =>
          /\ fix'.num_sats = 0
          /\ fix'.gps_qual = 0
          /\ Changed \subseteq {"num_sats", "gps_qual"}]_vars

\* The fix fields a sentence type carries.
Carried(t) ==
    IF t = "GGA" THEN {"timestamp", "latitude", "longitude", "altitude",
                       "num_sats", "gps_qual"}
    ELSE IF t = "GSA" THEN {"mode_fix_type", "pdop", "hdop", "vdop"}
    ELSE IF t = "RMC" THEN {"speed_over_ground"}
    ELSE {}

\* C5: a step changes a fix field only by folding a parsed sentence of the
\* kind that carries the field; sentences of the other kinds, parse errors,
\* reader timeouts and bus reads change no fix field.
C5_FieldsChangeOnlyByCarrier ==
    [][Changed # {} =>
          /\ pc = "u_parse"
          /\ result' # ParseError
          /\ Changed \subseteq Carried(result'.type)]_vars

\* C5 case: a GSA and then an RMC sentence were folded; the GGA fields are untouched.
C5_Witness ==
    /\ api = "update"
    /\ result = RMCSentence
    /\ fix.pdop = 25 /\ fix.speed_over_ground = 22
    /\ fix.timestamp = None /\ fix.num_sats = None

\* C6: parsing a proprietary (device notice) sentence ends update with True
\* whatever wait_for is, and changes no fix field.
C6_NoticeAlwaysSucceeds ==
    [][(pc = "u_parse" /\ result'.type \in NoticeKinds) =>
          /\ pc' = "done"
          /\ outcome' = "True"
          /\ fix' = fix]_vars

\* C6 case: update awaiting GSA returned True on a proprietary sentence.
C6_Witness ==
    /\ api = "update" /\ pc = "done" /\ outcome = "True"
    /\ result.type = "ProprietarySentence" /\ wait_for = "GSA"

\* C7: once update has parsed a sentence of a type it does not know, the call
\* has failed with RuntimeError naming the type and the raw line, with no bus
\* read after the parse; it never ends in Timeout or success.
C7_UnknownFailsAtOnce ==
    (api = "update" /\ result.type \notin RecognizedKinds \cup {"none", "ParseError"}) =>
        /\ pc = "done"
        /\ outcome = "RuntimeError"
        /\ err = <<result.type, sentence>>
        /\ rx = <<>>

\* C7 case: the call failed on an unknown type before its deadline.
C7_Witness ==
    /\ api = "update" /\ pc = "done" /\ outcome = "RuntimeError"
    /\ result.type = "ZDA"
    /\ now < u_timeout

\* The last sentence parsed neither satisfies wait_for, nor is a notice, nor is
\* of an unknown type.
NothingQualified ==
    /\ result.type \in RecognizedKinds \cup {"none", "ParseError"}
    /\ result.type \notin NoticeKinds
    /\ ~(result.type \in AwaitedKinds /\ result.type = wait_for)

\* C8 as stated: when no qualifying sentence arrives, update ends in
\* TimeoutError naming wait_for, at least its timeout after it began.
C8_OnlyTimeoutWithoutQualifying ==
    (api = "update" /\ pc = "done" /\ NothingQualified) =>
        /\ outcome = "TimeoutError"
        /\ err = <<wait_for>>
        /\ now - (u_timeout - u_arg) >= u_arg

\* C9 as stated: update starts no bus read once its own deadline has passed.
C9_NoReadPastDeadline ==
    [][(api = "update" /\ pc = "r_loop" /\ now' # now) => now < u_timeout]_vars

\* C10 as stated: update ends only in success, Timeout or Unsupported.
C10_OnlyThreeOutcomes ==
    (api = "update" /\ pc = "done") =>
        outcome \in {"True", "TimeoutError", "RuntimeError"}

\* C17: update returns True only when the sentence it just parsed is a device
\* notice or is of the awaited kind among GGA, GSA, RMC, VTG and GSV; a GLL
\* sentence never makes it return True, also when wait_for names GLL.
C17_SuccessOnlyOnAwaitedOrNotice ==
    (api = "update" /\ outcome = "True") =>
        /\ pc = "done"
        /\ result = parsed[Len(parsed)]
        /\ \/ result.type \in NoticeKinds
           \/ result.type \in AwaitedKinds /\ result.type = wait_for
        /\ \A i \in 1..(Len(parsed) - 1) :
              /\ parsed[i].type \notin NoticeKinds
              /\ parsed[i].type # wait_for \/ parsed[i].type = "GLL"

\* C17 case: update awaited GLL, parsed a GLL sentence and ended in Timeout.
C17_Witness ==
    /\ api = "update" /\ pc = "done" /\ outcome = "TimeoutError"
    /\ wait_for = "GLL" /\ result.type = "GLL"

\* What folding sentence r into fix fields f gives, by the fold table.
Apply(f, r) ==
    [k \in FixFields |->
        IF r.type = "GGA" /\ r.gps_qual = None /\ k \in {"num_sats", "gps_qual"}
        THEN 0
        ELSE IF r.type = "GGA" /\ r.gps_qual # None /\ k \in Carried("GGA")
        THEN r[k]
        ELSE IF r.type = "GSA" /\ k \in Carried("GSA")
        THEN r[k]
        ELSE IF r.type = "RMC" /\ k = "speed_over_ground"
        THEN r.spd_over_grnd
        ELSE f[k]]

RECURSIVE ApplyAll(_, _)
\* Folding the sentences of rs into f in order.
ApplyAll(f, rs) ==
    IF rs = <<>> THEN f ELSE ApplyAll(Apply(f, Head(rs)), Tail(rs))

\* C19: when update fails with Timeout or RuntimeError, the fix fields are the
\* fields at the start of the call with every sentence parsed during the call
\* folded in, in arrival order: nothing is rolled back.
C19_FailureKeepsFolds ==
    (api = "update" /\ pc = "done" /\ outcome \in {"TimeoutError", "RuntimeError"}) =>
        fix = ApplyAll(FixInit, parsed)

\* C19 case: update awaiting RMC folded a GGA fix and a GSA sentence, then timed out.
C19_Witness ==
    /\ api = "update" /\ pc = "done" /\ outcome = "TimeoutError"
    /\ wait_for = "RMC"
    /\ parsed = <<GGAFix, GSASentence>>
    /\ fix.num_sats = 8 /\ fix.pdop = 25

\* C20 as stated: every read_sentence call ends in a returned line or a
\* Timeout error, and every update call in success, Timeout or Unsupported.
C20_EndsInStatedOutcomes ==
    (pc # "idle") ~>
        /\ pc = "done"
        /\ api = "read_sentence" => outcome \in {"returned", "TimeoutError"}
        /\ api = "update" => outcome \in {"True", "TimeoutError", "RuntimeError"}

\* C20 amended: every read_sentence and every update call ends, whatever bytes
\* the bus delivers: read_sentence in a returned line, a Timeout error or a
\* decode error, update in success, Timeout, Unsupported or a decode error.
C20_EveryCallEnds ==
    (pc # "idle") ~>
        /\ pc = "done"
        /\ api = "read_sentence" =>
              outcome \in {"returned", "TimeoutError", "UnicodeDecodeError"}
        /\ api = "update" =>
              outcome \in {"True", "TimeoutError", "RuntimeError", "UnicodeDecodeError"}

\* C20 case: an update call that parsed only unparsable lines has ended in Timeout.
C20_Witness ==
    /\ api = "update" /\ pc = "done" /\ outcome = "TimeoutError"
    /\ Len(parsed) = 2
    /\ \A i \in 1..Len(parsed) : parsed[i] = ParseError

\* The bytes of s from its first "$" on; none when s holds no "$".
FromFirstDollar(s) ==
    IF \E i \in 1..Len(s) : s[i] = Dollar
    THEN SubSeq(s, FirstDollar(s), Len(s))
    ELSE <<>>

\* C18: the line buffer is local to one read_sentence call: a call made after
\* a call that timed out starts with an empty buffer, whatever partial frame
\* was abandoned, holds in its buffer only bytes it read itself, from its first
\* "$" on, and returns a line made of those bytes alone.
C18_BufferLocalToCall ==
    calls = 2 =>
        /\ (pc = "r_loop" \/ Returned) => buf = FromFirstDollar(rx)
        /\ Returned => sentence = WithoutLF(DropTrailingWhitespace(Content(rx)))

\* C18 case: the first call timed out inside a frame; the second call dropped
\* the rest of that frame and returned the next one.
C18_Witness ==
    /\ calls = 2 /\ Returned
    /\ abandoned >= 2
    /\ rx[1] = 65
    /\ Len(sentence) >= 2

\* ------------------------------------------------- claims on the encoder
\* A send_command call has ended, and no bus write of it failed.
SendEnded == pc = "done" /\ api = "send_command" /\ fault = "none"

\* The digits 0-9 and A-F, upper case.
UpperHex == <<48, 49, 50, 51, 52, 53, 54, 55, 56, 57, 65, 66, 67, 68, 69, 70>>

\* The write_byte calls made are the frame the claim describes for command
\* text c: "$", the normalized payload, "*" and two digits exactly when ck,
\* CR LF; each to the configured address; as many calls as the frame is long.
FramedAsStated(c, ck) ==
    LET w == Wire(bus)
        p == Normalize(c)
        n == Len(p)
    IN  /\ Len(bus) = Len(frame)
        /\ \A i \in 1..Len(bus) : bus[i][1] = PA1010D_ADDR
        /\ Len(w) = IF ck THEN n + 6 ELSE n + 3
        /\ w[1] = Dollar
        /\ SubSeq(w, 2, n + 1) = p
        /\ ck => /\ w[n + 2] = Star
                 /\ \E i, j \in 1..16 : w[n + 3] = UpperHex[i] /\ w[n + 4] = UpperHex[j]
        /\ w[Len(w) - 1] = CR
        /\ w[Len(w)] = LF

\* C11 as stated: for every command and both values of add_checksum the call
\* writes exactly the frame, one write_byte call per byte.
C11_EveryCommandFramed ==
    SendEnded => outcome = "None" /\ FramedAsStated(command.text, add_checksum)

\* C11 amended: for every bytes command and every text command of ASCII
\* characters, and both values of add_checksum, the call writes exactly "$" +
\* normalized payload + ("*" + two checksum digits, only with add_checksum) +
\* CR + LF, one write_byte call per byte to the configured address; a text
\* command holding a non-ASCII character fails with an encoding error before
\* any byte is written.
C11_EncodableCommandFramed ==
    SendEnded =>
        IF command.is_str /\ \E i \in 1..Len(command.text) : command.text[i] >= 128
        THEN outcome = "UnicodeEncodeError" /\ bus = <<>>
        ELSE outcome = "None" /\ FramedAsStated(command.text, add_checksum)

\* C11 case: "$A*" sent without a checksum went out as "$A" CR LF.
C11_Witness ==
    /\ SendEnded
    /\ outcome = "None"
    /\ ~add_checksum
    /\ command.text = <<36, 65, 42>>
    /\ bus = <<<<16, 36>>, <<16, 65>>, <<16, 13>>, <<16, 10>>>>

\* A call that goes through send_command with a checksum has returned.
SentWithChecksum ==
    /\ pc = "done"
    /\ api \in {"send_command", "set_pps"}
    /\ outcome = "None"
    /\ add_checksum

\* Bit k of the XOR of the bytes of s: the parity of the bytes that have it set.
XorBit(s, k) ==
    Cardinality({i \in 1..Len(s) : (s[i] \div (2 ^ k)) % 2 = 1}) % 2
\* The XOR of all the bytes of s; 0 for the empty sequence.
XorAll(s) ==
    XorBit(s, 0) + 2 * XorBit(s, 1) + 4 * XorBit(s, 2) + 8 * XorBit(s, 3)
        + 16 * XorBit(s, 4) + 32 * XorBit(s, 5) + 64 * XorBit(s, 6)
        + 128 * XorBit(s, 7)
\* What stands on the wire w between the leading "$" and the "*" that closes
\* the payload, both excluded.
WirePayload(w) == SubSeq(w, 2, Len(w) - 5)

\* C12: the two bytes after the "*" are the XOR of all payload bytes (0 for
\* the empty payload), "$" and "*" delimiters excluded, written as exactly two
\* upper-case hexadecimal digits, zero-padded.
C12_ChecksumIsXorInUpperHex ==
    SentWithChecksum =>
        LET w == Wire(bus)
            x == XorAll(WirePayload(w))
        IN  /\ Len(w) >= 6
            /\ w[Len(w) - 4] = Star
            /\ w[Len(w) - 3] = UpperHex[(x \div 16) + 1]
            /\ w[Len(w) - 2] = UpperHex[(x % 16) + 1]

\* C12 case: the payload "*$" has XOR 0x0E, sent as the digits "0E".
C12_Witness ==
    /\ SentWithChecksum
    /\ Wire(bus) = <<36, 42, 36, 42, 48, 69, 13, 10>>

\* c is a bare command: it does not begin with "$" and does not end with "*".
IsBare(c) == Len(c) = 0 \/ (c[1] # Dollar /\ c[Len(c)] # Star)
\* The four spellings of the bare command c.
Spellings(c) ==
    {c, <<Dollar>> \o c, c \o <<Star>>, <<Dollar>> \o c \o <<Star>>}
\* Two send_command calls have ended, neither by a failure of the bus.
TwoSent ==
    /\ Len(sent) = 2
    /\ \A i \in 1..2 : sent[i].outcome \in {"None", "UnicodeEncodeError"}

\* C13: two calls that pass spellings of one bare command c (c, "$" + c,
\* c + "*", "$" + c + "*") with the same add_checksum write identical bytes,
\* both as text and both as bytes, and also one as text and one as bytes when
\* c is ASCII.
C13_SpellingsWriteSameBytes ==
    TwoSent =>
        \A c \in CmdTexts :
            ( /\ IsBare(c)
              /\ sent[1].command.text \in Spellings(c)
              /\ sent[2].command.text \in Spellings(c)
              /\ sent[1].add_checksum = sent[2].add_checksum
              /\ \/ sent[1].command.is_str = sent[2].command.is_str
                 \/ \A i \in 1..Len(c) : c[i] < 128 )
            => sent[1].wire = sent[2].wire

\* C13 case: the text "A" and the bytes "$A*" were sent, and went out alike.
C13_Witness ==
    /\ TwoSent
    /\ sent[1].command = [text |-> <<65>>, is_str |-> TRUE]
    /\ sent[2].command = [text |-> <<36, 65, 42>>, is_str |-> FALSE]
    /\ sent[1].add_checksum /\ sent[2].add_checksum
    /\ sent[1].wire = <<36, 65, 42, 52, 49, 13, 10>>
    /\ sent[2].wire = sent[1].wire

\* C14: after send_command(c) for a bare command c, with checksum, passing
\* what that call put on the wire ("$" + c + "*" + HH, the CR LF left off) to
\* send_command with checksum writes the same bytes again.
C14_ReencodingIsIdempotent ==
    ( /\ TwoSent
      /\ sent[1].outcome = "None" /\ sent[2].outcome = "None"
      /\ sent[1].add_checksum /\ sent[2].add_checksum
      /\ IsBare(sent[1].command.text)
      /\ sent[2].command.text = SubSeq(sent[1].wire, 1, Len(sent[1].wire) - 2) )
    => sent[2].wire = sent[1].wire

\* The frame set_pps(m, pw) puts on the wire for a member m of PPS:
\* "$PMTK285,<value of m>,<pw>*HH" CR LF.
PpsWire(m, pw) ==
    LET p == <<80, 77, 84, 75, 50, 56, 53, 44>> \o <<48 + m.value>> \o <<44>>
                 \o Decimal(pw)
        x == XorAll(p)
    IN  <<Dollar>> \o p
            \o <<Star, UpperHex[(x \div 16) + 1], UpperHex[(x % 16) + 1], CR, LF>>

\* C15: set_pps with a mode that is not a member of PPS ends at once in
\* ValueError, with no bus write, no command sent and the fix fields as they
\* were; with a member it returns having written exactly one framed command,
\* the PMTK285 sentence for that mode and pulse width, and the fix fields are
\* as they were.
C15_SetPpsRejectsNonMember ==
    [][ /\ (pc = "idle" /\ api' = "set_pps" /\ ~mode'.is_pps) =>
              /\ pc' = "done"
              /\ outcome' = "ValueError"
              /\ bus' = <<>>
              /\ sent' = sent
              /\ fix' = fix
        /\ (api = "set_pps" /\ pc = "w_loop") =>
              /\ mode.is_pps
              /\ fix' = fix
              /\ (pc' = "done" /\ outcome' = "None") =>
                    /\ Wire(bus') = PpsWire(mode, pulse_width)
                    /\ \A i \in 1..Len(bus') : bus'[i][1] = PA1010D_ADDR
                    /\ Len(sent') = Len(sent) + 1
      ]_vars

\* C15 case: set_pps(4, ...) with the plain integer 4 was rejected, on a driver
\* that holds a fix, without a bus write.
C15_Witness ==
    /\ api = "set_pps" /\ pc = "done" /\ outcome = "ValueError"
    /\ mode = [is_pps |-> FALSE, value |-> 4]
    /\ fix = Fold(FixInit, GGAFix)
    /\ bus = <<>>

\* C16: a bus failure ends the call at once with the error of the bus: the
\* step in which a write_byte or a bus read fails ends the call with that
\* error, writes nothing and leaves the fix fields as they were, and no step
\* of the call follows it (no later write, no further read).
C16_BusFailureEndsCall ==
    [][ fault' # "none" =>
          /\ pc' = "done"
          /\ outcome' = ErrorClass(fault')
          /\ fix' = fix
          /\ bus' = bus
      ]_vars

====
